---- MODULE Spec2Model ----
(***************************************************************************)
(* homebridge-noip: the per-device refresh loop of the ContactSensor       *)
(* accessory (contactsensor.ts), with the public-IP resolver of the        *)
(* platform (platform.ts) and the rate settings of deviceBase (device.ts); *)
(* and the start of the platform: verifyConfig, the restore of the cached  *)
(* accessories, discoverDevices and createContactSensor (platform.ts).     *)
(*                                                                         *)
(* Time is counted in seconds and advances in steps of at most Quantum.    *)
(* A No-IP response text is a sequence of whitespace-separated words; the  *)
(* words of the vocabulary below contain `good' / `nochg' only as whole    *)
(* words, so the code's substring tests are tests on the words.            *)
(***************************************************************************)
EXTENDS Integers, Sequences, FiniteSets, TLC

\* ------------------------------------------------------------------ bounds

\* Hostnames a config.devices entry can carry; the entries of one config carry
\* different hostnames.
Devices == {"d1", "d2"}

\* Most refresh cycles of one device in flight at once (the code has no limit).
MaxInFlight == 2

\* Longest step of the clock, in seconds.
Quantum == 900

\* ------------------------------------------------------- program constants

\* An optional number that is not set (refreshRate?: number).
Undefined == -1

\* No value has been written yet.
Unset == "unset"

CONTACT_DETECTED == "CONTACT_DETECTED"

CONTACT_NOT_DETECTED == "CONTACT_NOT_DETECTED"

\* deviceRefreshRate falls back to 1800 seconds.
DefaultRefreshRate == 1800

\* "Retry the update no sooner than 30 minutes."
ThirtyMinutes == 30 * 60

\* The status codes named by the switch of ContactSensor.status.
StatusCodes ==
    {"nochg", "good", "nohost", "badauth", "badagent", "!donator", "abuse", "911"}

\* The codes whose case calls this.timeout() and that the No-IP protocol
\* makes terminal (all but 911).
TerminalCodes == {"nohost", "badauth", "badagent", "!donator", "abuse"}

\* First word of a response: a status code, or a word outside the vocabulary.
LeadWords == StatusCodes \cup {"unknown"}

\* Second word of a response, when there is one: the echoed address, or a
\* further status word (a second line of the body).
RestWords == {"addr", "good", "nochg"}

Responses ==
    {<<c>> : c \in LeadWords} \cup {<<c, w>> : c \in LeadWords, w \in RestWords}

\* Outcome recorded for a cycle that ended in the catch block.
TransportFailure == <<"transport-failure">>

\* device.refreshRate as configured: not set, or 15 minutes.
RefreshRateInputs == {Undefined, 900}

\* options.refreshRate as configured.
OptionsRefreshRateInputs == {Undefined}

\* A config field that is not given (undefined; an empty string is as falsy).
Absent == "absent"

\* Hostnames of the accessories the host can hold in its cache: those of the
\* configured devices, and one that is no longer in the config.
Hostnames == Devices \cup {"gone"}

\* Usernames as configured: none, one that is no email address, one that is.
Usernames == {Absent, "invalid-email", "test@example.com"}

\* An entry of config.devices (devicesConfig).
DeviceEntry(h, u, p, del) ==
    [hostname |-> h, username |-> u, password |-> p, delete |-> del,
     refreshRate |-> Undefined]

\* The entries enumerated for hostname h: a valid one, one flagged delete, and
\* one for each field verifyConfig reports.
EntriesFor(h) ==
    {DeviceEntry(h, "test@example.com", "password", FALSE),
     DeviceEntry(h, "test@example.com", "password", TRUE),
     DeviceEntry(h, "invalid-email", "password", FALSE),
     DeviceEntry(h, Absent, "password", FALSE),
     DeviceEntry(h, "test@example.com", Absent, FALSE)}

\* An entry without a hostname.
NoHostnameEntry == DeviceEntry(Absent, "test@example.com", "password", FALSE)

\* config.devices as configured: up to two entries.
DeviceLists ==
    {<<>>}
        \cup {<<a>> : a \in EntriesFor("d1") \cup {NoHostnameEntry}}
        \cup {<<a, b>> : a \in EntriesFor("d1") \cup {NoHostnameEntry},
                         b \in EntriesFor("d2") \cup {NoHostnameEntry}}

\* The config handed to the constructor: devices (or none), and the legacy
\* top-level hostname / username / password of the old config format.
RawConfigs ==
    [hasDevices : {TRUE}, devices : DeviceLists, legacy : BOOLEAN]
        \cup [hasDevices : {FALSE}, devices : {<<>>}, legacy : BOOLEAN]

\* options.logging as configured.
OptionsLoggingInputs == {Absent, "debug", "standard", "none"}

\* The host's cache of accessories at startup, in restore order.
CacheInputs ==
    {<<>>, <<"d1">>, <<"d2">>, <<"gone">>, <<"d1", "gone">>, <<"d1", "d2">>}

\* The API URLs of settings.ts.
ipinfo_v4 == "https://ipinfo.io/json"

getmyip_v4 == "https://ipv4.getmyip.dev"

ipify_v4 == "https://api.ipify.org?format=json"

ipapi_v4 == "https://ipapi.co/json"

myip_v4 == "https://api4.my-ip.io/v2/ip.json"

ipinfo_v6 == "https://v6.ipinfo.io/json"

getmyip_v6 == "https://ipv6.getmyip.dev"

ipify_v6 == "https://api64.ipify.org?format=json"

ipapi_v6 == "https://ip6api.co/json"

myip_v6 == "https://api6.my-ip.io/v2/ip.txt"

\* device.ipProvider as configured: the five providers, a name that is none
\* of them, or nothing.
IpProviderInputs ==
    {"ipify", "getmyip", "ipapi", "myip", "ipinfo", "other", Absent}

\* device.ipv4or6 as configured.
Ipv4or6Inputs == {"ipv4", "ipv6", Absent}

\* device.refreshRate and options.refreshRate as configured, for the
\* resolution of the rate settings: not set, 0, one minute, 15 minutes.
RateInputs == {Undefined, 0, 60, 900}

\* The settings of one device and its platform, as configured.
SettingsInputs ==
    [refreshRate : RateInputs, optionsRefreshRate : RateInputs,
     ipProvider : IpProviderInputs, ipv4or6 : Ipv4or6Inputs,
     argv : {{}}, optionsLogging : {Absent}, logging : {Absent},
     firmware : {<<>>}, version : {<<>>}]

\* The settings where none is under resolution.
NoSettings ==
    [refreshRate |-> Undefined, optionsRefreshRate |-> Undefined,
     ipProvider |-> Absent, ipv4or6 |-> Absent,
     argv |-> {}, optionsLogging |-> Absent, logging |-> Absent,
     firmware |-> <<>>, version |-> <<>>]

\* process.argv of Homebridge: the debug flags it may carry.
ArgvInputs == SUBSET {"-D", "--debug"}

\* devices[].logging as the settings form writes it: not written, or one of
\* the four values offered, "" being the one titled Default Logging.
DeviceLoggingInputs == {Absent, "", "standard", "none", "debug"}

\* A version that is not there: device.firmware of a device without the
\* setting.  A version is a sequence of characters.
NoVersion == <<>>

\* The version of package.json.
PluginVersion == <<"4", ".", "1", ".", "1">>

\* devices[].firmware: not configured, dotted, written with a leading V and
\* no dot, or with a pre-release suffix.
FirmwareInputs ==
    {NoVersion, <<"1", ".", "2">>, <<"V", "1", "2">>, <<"1", ".", "2", "-", "b">>}

\* The settings the logging and the version of a device derive from.
DeviceSettingsInputs ==
    [refreshRate : {Undefined}, optionsRefreshRate : {Undefined},
     ipProvider : {Absent}, ipv4or6 : {Absent},
     argv : ArgvInputs, optionsLogging : OptionsLoggingInputs,
     logging : DeviceLoggingInputs,
     firmware : FirmwareInputs, version : {PluginVersion}]

\* The response where no request is out.
NoLookup == [statusCode |-> Undefined, body |-> Absent]

\* The HTTP status codes an IP provider answers with: success and a server
\* error.
LookupStatusCodes == {200, 500}

\* The bodies an IP provider answers with: a JSON object with an ip field, a
\* JSON object without one, the address as plain text (my-ip.io ip.txt), and
\* an HTML page.
LookupBodies == {"json-ip", "json-no-ip", "text-ip", "html"}

\* undefined where a name is expected (names are sequences of characters).
UndefinedName == <<"undefined">>

\* accessory.displayName before createContactSensor has assigned it.
NotNamed == <<"unset">>

\* Longest name enumerated, in characters.
MaxNameLen == 3

\* The characters of names: a letter, a digit, the space, the apostrophe, and
\* a hyphen for every character that is none of these.
NameChars == {"a", "1", " ", "'", "-"}

\* The strings of up to MaxNameLen characters.
Names == UNION {[1..n -> NameChars] : n \in 0..MaxNameLen}

\* The names where none is under resolution.
NoNaming ==
    [allowInvalidCharacters |-> FALSE, configDeviceName |-> UndefinedName,
     userDefinedDeviceName |-> UndefinedName, hostname |-> UndefinedName]

\* The names of one device as configured: no configDeviceName and every
\* hostname label, or every configDeviceName with a userDefinedDeviceName
\* or without.
NamingInputs ==
    [allowInvalidCharacters : BOOLEAN, configDeviceName : {UndefinedName},
     userDefinedDeviceName : {UndefinedName}, hostname : Names]
        \cup [allowInvalidCharacters : BOOLEAN, configDeviceName : Names,
              userDefinedDeviceName : {UndefinedName, <<"a", "-", "1">>},
              hostname : {<<"a", "1">>}]

\* What publicIPv4 / publicIPv6 can come back with: pubIp.ip, undefined for a
\* body without an ip field, or the catch block (an error log and undefined).
ResolverOutcomes == {"addr", "undefined", "failed"}

\* ------------------------------------------------------------------- state

VARIABLES
    platformRefreshRate,    \* NoIPPlatform.platformRefreshRate
    subscribed,             \* d -> the interval of the constructor is subscribed
    skipping,               \* d -> skipWhile has not yet seen its predicate false
    deviceRefreshRate,      \* d -> deviceBase.deviceRefreshRate (seconds)
    untilFire,              \* d -> seconds until the interval emits next
    SensorUpdateInProgress, \* d -> ContactSensor.SensorUpdateInProgress
    ContactSensorState,     \* d -> ContactSensor.ContactSensor.ContactSensorState
    characteristic,         \* d -> last value given to Service.updateCharacteristic
    context,                \* d -> accessory.context.ContactSensorState
    cycles,                 \* d -> refreshStatus calls in flight, oldest first
    lastResp,               \* d -> outcome of the most recently ended cycle
    olderCycles,            \* d -> cycles in flight that began before lastResp
    since911,               \* d -> seconds since the last 911 response, Undefined if none
    wrote,                  \* d -> the latest updateHomeKitCharacteristics wrote the characteristic
    overtaken,              \* d -> the cycles in flight that began before a cycle whose response has been interpreted
    config,                 \* NoIPPlatform.config, as the constructor builds it
    platformLogging,        \* NoIPPlatform.platformLogging
    hostCache,              \* cached accessories the host has still to restore
    accessories,            \* NoIPPlatform.accessories (hostnames, in push order)
    registerCalls,          \* h -> calls of api.registerPlatformAccessories for h
    unregisterCalls,        \* h -> calls of api.unregisterPlatformAccessories for h
    log,                    \* entries handed to this.log: <<level, message>>
    phase,                  \* how far the start of the platform has come
    discoverIndex,          \* entry of config.devices the loop of discoverDevices is at
    creating,               \* k -> where createContactSensor(config.devices[k]) stands
    rejections,             \* entries whose createContactSensor promise rejected, unhandled
    settings,               \* the settings a device is configured with (rates, provider)
    requests,               \* URLs of the GET requests publicIPv4 / publicIPv6 issued
    lookup,                 \* the response of the IP provider to the request
    resolved,               \* what publicIPv4 / publicIPv6 returned
    naming,                 \* the names a device is configured with
    displayName,            \* accessory.displayName as createContactSensor leaves it
    platformDebugMode,      \* NoIPPlatform.debugMode
    deviceLogging,          \* deviceBase.deviceLogging
    deviceFirmwareVersion,  \* deviceBase.deviceFirmwareVersion
    userAgent               \* the version in the User-Agent of the update call

\* The state of the platform's start.
platformVars ==
    <<config, platformLogging, hostCache, accessories, registerCalls,
      unregisterCalls, log, phase, discoverIndex, creating, rejections>>

\* The state of the accessory handlers (ContactSensor) and their timers.
handlerVars ==
    <<platformRefreshRate, subscribed, skipping, deviceRefreshRate, untilFire,
      SensorUpdateInProgress, ContactSensorState, characteristic, context,
      cycles, lastResp, olderCycles, since911, wrote, overtaken>>

\* The settings under resolution, the requests of the resolver with their
\* responses and results, and the names under resolution with their result.
settingsVars ==
    <<settings, requests, lookup, resolved, naming, displayName,
      platformDebugMode, deviceLogging, deviceFirmwareVersion, userAgent>>

\* What the constructors of the platform and of deviceBase derive from the
\* settings, and the header of the update call.
deviceVars == <<platformDebugMode, deviceLogging, deviceFirmwareVersion, userAgent>>

vars ==
    <<platformRefreshRate, subscribed, skipping, deviceRefreshRate, untilFire,
      SensorUpdateInProgress, ContactSensorState, characteristic, context,
      cycles, lastResp, olderCycles, since911, wrote, overtaken,
      platformVars, settingsVars>>

\* ----------------------------------------------------------------- helpers

Min(a, b) == IF a < b THEN a ELSE b

RemoveAt(s, i) == SubSeq(s, 1, i - 1) \o SubSeq(s, i + 1, Len(s))

\* a ?? b
Nullish(a, b) == IF a = Undefined THEN b ELSE a

\* NoIPPlatform.getPlatformRateSettings: options.refreshRate ? it : undefined
getPlatformRateSettings(optionsRefreshRate) ==
    IF optionsRefreshRate # Undefined /\ optionsRefreshRate # 0
    THEN optionsRefreshRate
    ELSE Undefined

\* A faulty getDeviceRateSettings that lets the platform's rate win.
getDeviceRateSettingsPlatformFirst(deviceRate, platformRate) ==
    Nullish(platformRate, Nullish(deviceRate, DefaultRefreshRate))

\* deviceBase.getDeviceRateSettings
getDeviceRateSettings(deviceRate, platformRate) ==
    Nullish(deviceRate, Nullish(platformRate, DefaultRefreshRate))

\* \p{L} or \p{N}.
LetterOrNumber(c) == c \in {"a", "1"}

\* /^[\p{L}\p{N}][\p{L}\p{N} ']*[\p{L}\p{N}]$/u
validPattern(value) ==
    /\ Len(value) >= 2
    /\ LetterOrNumber(value[1])
    /\ LetterOrNumber(value[Len(value)])
    /\ \A i \in 1..Len(value) : LetterOrNumber(value[i]) \/ value[i] \in {" ", "'"}

\* /[^\p{L}\p{N} ']/gu matches the character.
invalidCharsPattern(c) == ~(LetterOrNumber(c) \/ c \in {" ", "'"})

\* value.replace(invalidCharsPattern, '')
removeInvalidChars(value) == SelectSeq(value, LAMBDA c : ~invalidCharsPattern(c))

\* The value without the match of /^[^\p{L}\p{N}]+/.
RECURSIVE removeInvalidStart(_)
removeInvalidStart(value) ==
    IF value = <<>> \/ LetterOrNumber(value[1]) THEN value
    ELSE removeInvalidStart(Tail(value))

\* The value without the match of /[^\p{L}\p{N}]+$/.
RECURSIVE removeInvalidEnd(_)
removeInvalidEnd(value) ==
    IF value = <<>> \/ LetterOrNumber(value[Len(value)]) THEN value
    ELSE removeInvalidEnd(SubSeq(value, 1, Len(value) - 1))

\* value.replace(invalidStartEndPattern, ''), with
\* /^[^\p{L}\p{N}]+|[^\p{L}\p{N}]+$/gu
removeInvalidStartEnd(value) == removeInvalidEnd(removeInvalidStart(value))

\* A faulty validateAndCleanDisplayName that also removes the spaces and
\* apostrophes inside the value.
validateAndCleanDisplayNameLettersOnly(allowInvalidCharacters, value) ==
    IF allowInvalidCharacters \/ value = UndefinedName THEN value
    ELSE SelectSeq(value, LetterOrNumber)

\* A faulty validateAndCleanDisplayName that removes the invalid characters
\* and leaves the start and the end of the value as they are.
validateAndCleanDisplayNameKeepsStartEnd(allowInvalidCharacters, value) ==
    IF allowInvalidCharacters THEN value
    ELSE IF value # UndefinedName /\ ~validPattern(value)
         THEN removeInvalidChars(value)
         ELSE value

\* NoIPPlatform.validateAndCleanDisplayName: the value it returns.
validateAndCleanDisplayName(allowInvalidCharacters, value) ==
    IF allowInvalidCharacters THEN value
    ELSE IF value # UndefinedName /\ ~validPattern(value)
         THEN removeInvalidStartEnd(removeInvalidChars(value))
         ELSE value

\* await body.json(): whether it parses, and the ip field of the object.
bodyJson(body) ==
    CASE body = "json-ip" -> [parsed |-> TRUE, ip |-> "addr"]
      [] body = "json-no-ip" -> [parsed |-> TRUE, ip |-> "undefined"]
      [] OTHER -> [parsed |-> FALSE, ip |-> "undefined"]

\* NoIPPlatform.publicIPv4: the URL it requests.
publicIPv4(device) ==
    IF device.ipProvider = "ipify" THEN ipify_v4
    ELSE IF device.ipProvider = "getmyip" THEN getmyip_v4
    ELSE IF device.ipProvider = "ipapi" THEN ipapi_v4
    ELSE IF device.ipProvider = "myip" THEN myip_v4
    ELSE ipinfo_v4

\* A faulty publicIPv6 whose fallback is the v4 URL of ipinfo.
publicIPv6FallsBackToV4(device) ==
    IF device.ipProvider = "ipify" THEN ipify_v6
    ELSE IF device.ipProvider = "getmyip" THEN getmyip_v6
    ELSE IF device.ipProvider = "ipapi" THEN ipapi_v6
    ELSE IF device.ipProvider = "myip" THEN myip_v6
    ELSE ipinfo_v4

\* NoIPPlatform.publicIPv6: the URL it requests.
publicIPv6(device) ==
    IF device.ipProvider = "ipify" THEN ipify_v6
    ELSE IF device.ipProvider = "getmyip" THEN getmyip_v6
    ELSE IF device.ipProvider = "ipapi" THEN ipapi_v6
    ELSE IF device.ipProvider = "myip" THEN myip_v6
    ELSE ipinfo_v6

\* device.ipv4or6 === 'ipv6' ? publicIPv6(device) : publicIPv4(device)
publicIP(device) ==
    IF device.ipv4or6 = "ipv6" THEN publicIPv6(device) ELSE publicIPv4(device)

\* data.match(/good|nochg/g): the matches in text order, <<>> for null.
RECURSIVE match(_)
match(data) ==
    IF data = <<>> THEN <<>>
    ELSE IF Head(data) \in {"good", "nochg"}
         THEN <<Head(data)>> \o match(Tail(data))
         ELSE match(Tail(data))

\* The level refreshStatus logs the response data at, lines 133-139: at debug
\* level (data: f[0]) when the text matches, `error: data' otherwise.
refreshStatusLogLevel(data) == IF match(data) # <<>> THEN "debug" ELSE "error"

\* deviceBase.updateCharacteristic: whether it hands the value to
\* Service.updateCharacteristic (it does unless the value is undefined).
updateCharacteristic(CharacteristicValue) == CharacteristicValue # Unset

\* response.includes('nochg')
includesNochg(response) == \E i \in 1..Len(response) : response[i] = "nochg"

\* A faulty parseStatus that looks for `good' where the code looks for `nochg'.
parseStatusLooksForGood(response) ==
    IF \E i \in 1..Len(response) : response[i] = "good"
    THEN CONTACT_DETECTED
    ELSE CONTACT_NOT_DETECTED

\* ContactSensor.parseStatus: the state it stores.
parseStatus(response) ==
    IF includesNochg(response) THEN CONTACT_DETECTED ELSE CONTACT_NOT_DETECTED

\* ContactSensor.status: what the case of f[0] does.
status(f) ==
    CASE f[1] = "nochg" -> "debugLog"
      [] f[1] = "good" -> "warnLog"
      [] f[1] \in TerminalCodes \cup {"911"} -> "timeout"
      [] OTHER -> "debugLog"

\* ContactSensor.timeout: it pipes this.interval, a field that is never
\* assigned; the subscription made in the constructor is left as it is.
timeout(sub) == sub

\* The interval subscription after lines 132-139 of refreshStatus.
subscriptionAfter(data, sub) ==
    IF match(data) # <<>> /\ status(match(data)) = "timeout"
    THEN timeout(sub)
    ELSE sub

\* A refreshStatus call waiting for publicIPv4 / publicIPv6.
NewCycle == [stage |-> "resolve", ip |-> "pending"]

\* The elements of a sequence.
Range(s) == {s[i] : i \in 1..Len(s)}

\* The constructor keeps platform, name, devices and options of the config it
\* is given: a legacy top-level hostname / username / password is not copied.
constructorConfig(raw) ==
    [platform |-> "NoIP", hasDevices |-> raw.hasDevices, devices |-> raw.devices,
     hostname |-> Absent, username |-> Absent, password |-> Absent]

\* this.config of a platform constructed without a config: never assigned.
UndefinedConfig ==
    [platform |-> Absent, hasDevices |-> FALSE, devices |-> <<>>,
     hostname |-> Absent, username |-> Absent, password |-> Absent]

\* NoIPPlatform.getPlatformLogSettings: the value of platformLogging.
getPlatformLogSettings(optionsLogging, debugMode) ==
    IF optionsLogging \in {"debug", "standard", "none"} THEN optionsLogging
    ELSE IF debugMode THEN "debugMode"
    ELSE "standard"

\* this.debugMode = argv.includes('-D') ?? argv.includes('--debug'): includes
\* answers true or false, never null or undefined, so ?? keeps its left side.
argvDebugMode(argv) == "-D" \in argv

\* deviceBase.getDeviceLogSettings: ?? passes over undefined only, an empty
\* string is a value.
getDeviceLogSettings(debugMode, logging, platformLevel) ==
    IF debugMode THEN "debugMode"
    ELSE IF logging # Absent THEN logging
    ELSE IF platformLevel # Absent THEN platformLevel
    ELSE "standard"

\* version.replace(/^V|-.*$/g, ''): without a leading V and without what
\* begins at the first dash.
RECURSIVE untilDash(_)
untilDash(version) ==
    IF version = <<>> \/ Head(version) = "-" THEN <<>>
    ELSE <<Head(version)>> \o untilDash(Tail(version))

replaceVersion(version) ==
    untilDash(IF version # <<>> /\ Head(version) = "V" THEN Tail(version)
              ELSE version)

\* match(/./g)?.join('.'): the characters with a dot between two of them.
RECURSIVE joinDots(_)
joinDots(chars) ==
    IF Len(chars) <= 1 THEN chars
    ELSE <<Head(chars), ".">> \o joinDots(Tail(chars))

\* version.includes('.')
includesDot(version) == \E i \in 1..Len(version) : version[i] = "."

\* deviceBase.getDeviceContext: the value of deviceFirmwareVersion.  A match
\* of nothing is null and its join undefined: '0.0.0' then.
getDeviceContext(firmware, version) ==
    LET configured ==
            IF firmware # NoVersion THEN firmware
            ELSE IF version # NoVersion THEN version
            ELSE <<"0", ".", "0", ".", "0">>
    IN IF ~includesDot(configured)
       THEN IF replaceVersion(configured) = <<>>
            THEN <<"0", ".", "0", ".", "0">>
            ELSE joinDots(replaceVersion(configured))
       ELSE replaceVersion(configured)

\* `Homebridge-NoIP/v${this.device.firmware}`: the text after the v; a
\* device without the setting interpolates as undefined.
UserAgentVersion(firmware) ==
    IF firmware = NoVersion THEN UndefinedName ELSE firmware

enablingPlatformLogging(logging) == logging \in {"debugMode", "debug", "standard"}

loggingIsDebug(logging) == logging \in {"debugMode", "debug"}

\* NoIPPlatform.errorLog: the log after it.
errorLog(l, logging, message, subject) ==
    IF enablingPlatformLogging(logging)
    THEN l \cup {<<"error", message, subject>>}
    ELSE l

\* NoIPPlatform.warnLog
warnLog(l, logging, message, subject) ==
    IF enablingPlatformLogging(logging)
    THEN l \cup {<<"warn", message, subject>>}
    ELSE l

\* NoIPPlatform.infoLog
infoLog(l, logging, message, subject) ==
    IF enablingPlatformLogging(logging)
    THEN l \cup {<<"info", message, subject>>}
    ELSE l

\* NoIPPlatform.debugErrorLog
debugErrorLog(l, logging, message, subject) ==
    IF enablingPlatformLogging(logging) /\ loggingIsDebug(logging)
    THEN l \cup {<<"error", message, subject>>}
    ELSE l

\* validator.isEmail, on the usernames enumerated.
isEmail(email) == email = "test@example.com"

\* A faulty validateEmail with the verdict of isEmail negated.
validateEmailNegated(email) == IF email = Absent THEN FALSE ELSE ~isEmail(email)

\* NoIPPlatform.validateEmail
validateEmail(email) == IF email = Absent THEN FALSE ELSE isEmail(email)

\* A faulty check of one entry that takes any username that is given.
verifyDeviceAnyUsername(deviceConfig, logging, l) ==
    LET l1 == IF deviceConfig.hostname = Absent
              THEN errorLog(l, logging, "Missing Domain", deviceConfig.hostname)
              ELSE l
        l2 == IF deviceConfig.username = Absent
              THEN errorLog(l1, logging, "Missing Your No-IP Username(E-mail)",
                            deviceConfig.hostname)
              ELSE l1
    IN  IF deviceConfig.password = Absent
        THEN errorLog(l2, logging, "Missing your No-IP Password", deviceConfig.hostname)
        ELSE l2

\* The body of the loop of verifyConfig, for one entry of config.devices.
verifyDevice(deviceConfig, logging, l) ==
    LET l1 == IF deviceConfig.hostname = Absent
              THEN errorLog(l, logging, "Missing Domain", deviceConfig.hostname)
              ELSE l
        l2 == IF deviceConfig.username = Absent
              THEN errorLog(l1, logging, "Missing Your No-IP Username(E-mail)",
                            deviceConfig.hostname)
              ELSE IF ~validateEmail(deviceConfig.username)
                   THEN errorLog(l1, logging, "Provide a valid Email",
                                 deviceConfig.hostname)
                   ELSE l1
    IN  IF deviceConfig.password = Absent
        THEN errorLog(l2, logging, "Missing your No-IP Password", deviceConfig.hostname)
        ELSE l2

\* for (const deviceConfig of this.config.devices)
RECURSIVE verifyDevices(_, _, _)
verifyDevices(devices, logging, l) ==
    IF devices = <<>> THEN l
    ELSE verifyDevices(Tail(devices), logging, verifyDevice(Head(devices), logging, l))

\* NoIPPlatform.verifyConfig: the log after it.
verifyConfig(cfg, logging, l) ==
    LET l0 == IF cfg.hostname # Absent \/ cfg.username # Absent \/ cfg.password # Absent
              THEN errorLog(l, logging, "You still have old config that will be ignored",
                            Absent)
              ELSE l
    IN  IF cfg.hasDevices
        THEN verifyDevices(cfg.devices, logging, l0)
        ELSE errorLog(l0, logging, "verifyConfig, No Device Config", Absent)

\* ---------------------------------------------------------------- actions

\* No accessory handler has been constructed yet.
NoHandlers ==
    /\ subscribed = [d \in Devices |-> FALSE]
    /\ skipping = [d \in Devices |-> TRUE]
    /\ deviceRefreshRate = [d \in Devices |-> DefaultRefreshRate]
    /\ untilFire = [d \in Devices |-> DefaultRefreshRate]
    /\ SensorUpdateInProgress = [d \in Devices |-> FALSE]
    /\ ContactSensorState = [d \in Devices |-> CONTACT_NOT_DETECTED]
    /\ characteristic = [d \in Devices |-> Unset]
    /\ context = [d \in Devices |-> Unset]
    /\ cycles = [d \in Devices |-> <<>>]
    /\ lastResp = [d \in Devices |-> <<>>]
    /\ olderCycles = [d \in Devices |-> 0]
    /\ since911 = [d \in Devices |-> Undefined]
    /\ wrote = [d \in Devices |-> FALSE]
    /\ overtaken = [d \in Devices |-> 0]

\* The platform right after its constructor, for the config raw, the logging
\* setting and the host cache given.
PlatformConstructed(raw, logging, cache) ==
    /\ config = constructorConfig(raw)
    /\ platformLogging = logging
    /\ hostCache = cache
    /\ accessories = <<>>
    /\ registerCalls = [h \in Hostnames |-> 0]
    /\ unregisterCalls = [h \in Hostnames |-> 0]
    /\ log = {}
    /\ phase = "constructed"
    /\ discoverIndex = 1
    /\ creating = [k \in 1..Len(raw.devices) |-> "none"]
    /\ rejections = {}

\* The state after the constructor when it is given no config: it returns
\* before this.config and platformLogging are assigned, before verifyConfig
\* is started and before the didFinishLaunching listener is installed.
PlatformNotConfigured(cache) ==
    /\ config = UndefinedConfig
    /\ platformLogging = Absent
    /\ hostCache = cache
    /\ accessories = <<>>
    /\ registerCalls = [h \in Hostnames |-> 0]
    /\ unregisterCalls = [h \in Hostnames |-> 0]
    /\ log = {}
    /\ phase = "inert"
    /\ discoverIndex = 1
    /\ creating = <<>>
    /\ rejections = {}

\* No response of an IP provider has come in and no name is under resolution.
NothingResolved ==
    /\ platformDebugMode = FALSE
    /\ deviceLogging = Unset
    /\ deviceFirmwareVersion = NotNamed
    /\ userAgent = NotNamed
    /\ lookup = NoLookup
    /\ resolved = Unset
    /\ naming = NoNaming
    /\ displayName = NotNamed

\* One valid device, standard logging, nothing in the host cache.
Init ==
    /\ platformRefreshRate \in
         {getPlatformRateSettings(r) : r \in OptionsRefreshRateInputs}
    /\ NoHandlers
    /\ PlatformConstructed(
          [hasDevices |-> TRUE,
           devices |-> <<DeviceEntry("d1", "test@example.com", "password", FALSE)>>,
           legacy |-> FALSE],
          "standard", <<>>)
    /\ settings = NoSettings
    /\ requests = <<>>
    /\ NothingResolved

\* A faulty constructor that leaves the first refresh to the first tick.
ConstructWithoutRefresh(d, refreshRate) ==
    /\ ~subscribed[d]
    /\ deviceRefreshRate' =
         [deviceRefreshRate EXCEPT
            ![d] = getDeviceRateSettings(refreshRate, platformRefreshRate)]
    /\ ContactSensorState' = [ContactSensorState EXCEPT ![d] = CONTACT_NOT_DETECTED]
    /\ SensorUpdateInProgress' = [SensorUpdateInProgress EXCEPT ![d] = FALSE]
    /\ cycles' = [cycles EXCEPT ![d] = <<>>]
    /\ characteristic' = [characteristic EXCEPT ![d] = ContactSensorState'[d]]
    /\ context' = [context EXCEPT ![d] = ContactSensorState'[d]]
    /\ wrote' = [wrote EXCEPT ![d] = updateCharacteristic(ContactSensorState'[d])]
    /\ subscribed' = [subscribed EXCEPT ![d] = TRUE]
    /\ skipping' = [skipping EXCEPT ![d] = TRUE]
    /\ untilFire' = [untilFire EXCEPT ![d] = deviceRefreshRate'[d]]
    /\ overtaken' = [overtaken EXCEPT ![d] = 0]
    /\ UNCHANGED <<platformRefreshRate, lastResp, olderCycles, since911>>

\* new ContactSensor(platform, accessory, device)
Construct(d, refreshRate) ==
    /\ ~subscribed[d]
    /\ deviceRefreshRate' =
         [deviceRefreshRate EXCEPT
            ![d] = getDeviceRateSettings(refreshRate, platformRefreshRate)]
    /\ ContactSensorState' = [ContactSensorState EXCEPT ![d] = CONTACT_NOT_DETECTED]
    /\ SensorUpdateInProgress' = [SensorUpdateInProgress EXCEPT ![d] = FALSE]
    \* this.refreshStatus() runs up to its first await
    /\ cycles' = [cycles EXCEPT ![d] = <<NewCycle>>]
    \* this.updateHomeKitCharacteristics()
    /\ characteristic' = [characteristic EXCEPT ![d] = ContactSensorState'[d]]
    /\ context' = [context EXCEPT ![d] = ContactSensorState'[d]]
    /\ wrote' = [wrote EXCEPT ![d] = updateCharacteristic(ContactSensorState'[d])]
    \* interval(this.deviceRefreshRate * 1000).pipe(skipWhile(...)).subscribe(...)
    /\ subscribed' = [subscribed EXCEPT ![d] = TRUE]
    /\ skipping' = [skipping EXCEPT ![d] = TRUE]
    /\ untilFire' = [untilFire EXCEPT ![d] = deviceRefreshRate'[d]]
    /\ overtaken' = [overtaken EXCEPT ![d] = 0]
    /\ UNCHANGED <<platformRefreshRate, lastResp, olderCycles, since911>>

\* A faulty subscription with takeWhile in the place of skipWhile: the first
\* emission finds the predicate false and completes the stream.
TimerFireTakeWhile(d) ==
    /\ subscribed[d]
    /\ untilFire[d] = 0
    /\ subscribed' = [subscribed EXCEPT ![d] = SensorUpdateInProgress[d]]
    /\ UNCHANGED platformVars
    /\ UNCHANGED settingsVars
    /\ UNCHANGED <<platformRefreshRate, skipping, deviceRefreshRate, untilFire,
                   SensorUpdateInProgress, ContactSensorState, characteristic,
                   context, cycles, lastResp, olderCycles, since911, wrote,
                   overtaken>>

\* The interval emits. skipWhile drops the emission while it is still skipping
\* and its predicate holds; otherwise the subscriber calls refreshStatus().
TimerFire(d) ==
    /\ subscribed[d]
    /\ untilFire[d] = 0
    /\ Len(cycles[d]) < MaxInFlight
    /\ untilFire' = [untilFire EXCEPT ![d] = deviceRefreshRate[d]]
    /\ skipping' = [skipping EXCEPT ![d] = skipping[d] /\ SensorUpdateInProgress[d]]
    /\ cycles' =
         [cycles EXCEPT ![d] = IF skipping'[d] THEN @ ELSE Append(@, NewCycle)]
    /\ UNCHANGED platformVars
    /\ UNCHANGED settingsVars
    /\ UNCHANGED <<platformRefreshRate, subscribed, deviceRefreshRate,
                   SensorUpdateInProgress, ContactSensorState, characteristic,
                   context, lastResp, olderCycles, since911, wrote,
                   overtaken>>

\* publicIPv4 / publicIPv6 returns: pubIp.ip, or undefined (a missing field,
\* or the catch block). refreshStatus goes on to request(noip, ...).
ResolverDone(d, i, ip) ==
    /\ i \in 1..Len(cycles[d])
    /\ cycles[d][i].stage = "resolve"
    /\ cycles' = [cycles EXCEPT ![d][i] = [stage |-> "update", ip |-> ip]]
    /\ UNCHANGED platformVars
    /\ UNCHANGED settingsVars
    /\ UNCHANGED <<platformRefreshRate, subscribed, skipping, deviceRefreshRate,
                   untilFire, SensorUpdateInProgress, ContactSensorState,
                   characteristic, context, lastResp, olderCycles, since911, wrote,
                   overtaken>>

\* request(noip, ...) or body.text() throws: the catch block of refreshStatus.
UpdateFailed(d, i) ==
    /\ i \in 1..Len(cycles[d])
    /\ cycles[d][i].stage = "update"
    \* apiError(e): Service.updateCharacteristic(ContactSensorState, e)
    /\ characteristic' = [characteristic EXCEPT ![d] = "error"]
    /\ cycles' = [cycles EXCEPT ![d] = RemoveAt(@, i)]
    /\ lastResp' = [lastResp EXCEPT ![d] = TransportFailure]
    /\ olderCycles' = [olderCycles EXCEPT ![d] = Len(cycles'[d])]
    /\ overtaken' = [overtaken EXCEPT ![d] = IF i <= @ THEN @ - 1 ELSE @]
    /\ UNCHANGED platformVars
    /\ UNCHANGED settingsVars
    /\ UNCHANGED <<platformRefreshRate, subscribed, skipping, deviceRefreshRate,
                   untilFire, SensorUpdateInProgress, ContactSensorState,
                   context, since911, wrote>>

\* UpdateResponded with a characteristic that is written only when the
\* decided state differs from the value last written.
UpdateRespondedWritesOnChange(d, i, response) ==
    /\ i \in 1..Len(cycles[d])
    /\ cycles[d][i].stage = "update"
    /\ subscribed' = [subscribed EXCEPT ![d] = subscriptionAfter(response, @)]
    /\ ContactSensorState' = [ContactSensorState EXCEPT ![d] = parseStatus(response)]
    \* updateHomeKitCharacteristics -> updateCharacteristic
    /\ characteristic' = [characteristic EXCEPT ![d] = ContactSensorState'[d]]
    /\ context' = [context EXCEPT ![d] = ContactSensorState'[d]]
    /\ wrote' = [wrote EXCEPT ![d] = ContactSensorState'[d] # characteristic[d]]
    /\ cycles' = [cycles EXCEPT ![d] = RemoveAt(@, i)]
    /\ lastResp' = [lastResp EXCEPT ![d] = response]
    /\ olderCycles' = [olderCycles EXCEPT ![d] = Len(cycles'[d])]
    \* the cycles before this one are still in flight
    /\ overtaken' = [overtaken EXCEPT ![d] = IF i <= @ THEN @ - 1 ELSE i - 1]
    /\ since911' = [since911 EXCEPT ![d] = IF response[1] = "911" THEN 0 ELSE @]
    /\ UNCHANGED platformVars
    /\ UNCHANGED settingsVars
    /\ UNCHANGED <<platformRefreshRate, skipping, deviceRefreshRate, untilFire,
                   SensorUpdateInProgress>>

\* UpdateResponded with the sensor state kept in one place for all devices.
UpdateRespondedSharedState(d, i, response) ==
    /\ i \in 1..Len(cycles[d])
    /\ cycles[d][i].stage = "update"
    /\ subscribed' = [subscribed EXCEPT ![d] = subscriptionAfter(response, @)]
    /\ ContactSensorState' = [e \in Devices |-> parseStatus(response)]
    \* updateHomeKitCharacteristics -> updateCharacteristic
    /\ characteristic' = [characteristic EXCEPT ![d] = ContactSensorState'[d]]
    /\ context' = [context EXCEPT ![d] = ContactSensorState'[d]]
    /\ wrote' = [wrote EXCEPT ![d] = updateCharacteristic(ContactSensorState'[d])]
    /\ cycles' = [cycles EXCEPT ![d] = RemoveAt(@, i)]
    /\ lastResp' = [lastResp EXCEPT ![d] = response]
    /\ olderCycles' = [olderCycles EXCEPT ![d] = Len(cycles'[d])]
    \* the cycles before this one are still in flight
    /\ overtaken' = [overtaken EXCEPT ![d] = IF i <= @ THEN @ - 1 ELSE i - 1]
    /\ since911' = [since911 EXCEPT ![d] = IF response[1] = "911" THEN 0 ELSE @]
    /\ UNCHANGED platformVars
    /\ UNCHANGED settingsVars
    /\ UNCHANGED <<platformRefreshRate, skipping, deviceRefreshRate, untilFire,
                   SensorUpdateInProgress>>

\* UpdateResponded with an updateCharacteristic that leaves accessory.context
\* as it was.
UpdateRespondedKeepsContext(d, i, response) ==
    /\ i \in 1..Len(cycles[d])
    /\ cycles[d][i].stage = "update"
    /\ subscribed' = [subscribed EXCEPT ![d] = subscriptionAfter(response, @)]
    /\ ContactSensorState' = [ContactSensorState EXCEPT ![d] = parseStatus(response)]
    /\ characteristic' = [characteristic EXCEPT ![d] = ContactSensorState'[d]]
    /\ wrote' = [wrote EXCEPT ![d] = updateCharacteristic(ContactSensorState'[d])]
    /\ cycles' = [cycles EXCEPT ![d] = RemoveAt(@, i)]
    /\ lastResp' = [lastResp EXCEPT ![d] = response]
    /\ olderCycles' = [olderCycles EXCEPT ![d] = Len(cycles'[d])]
    /\ overtaken' = [overtaken EXCEPT ![d] = IF i <= @ THEN @ - 1 ELSE i - 1]
    /\ since911' = [since911 EXCEPT ![d] = IF response[1] = "911" THEN 0 ELSE @]
    /\ UNCHANGED platformVars
    /\ UNCHANGED settingsVars
    /\ UNCHANGED <<platformRefreshRate, skipping, deviceRefreshRate, untilFire,
                   SensorUpdateInProgress, context>>

\* body.text() returns: lines 129-141 of refreshStatus.
UpdateResponded(d, i, response) ==
    /\ i \in 1..Len(cycles[d])
    /\ cycles[d][i].stage = "update"
    /\ subscribed' = [subscribed EXCEPT ![d] = subscriptionAfter(response, @)]
    /\ ContactSensorState' = [ContactSensorState EXCEPT ![d] = parseStatus(response)]
    \* updateHomeKitCharacteristics -> updateCharacteristic
    /\ characteristic' = [characteristic EXCEPT ![d] = ContactSensorState'[d]]
    /\ context' = [context EXCEPT ![d] = ContactSensorState'[d]]
    /\ wrote' = [wrote EXCEPT ![d] = updateCharacteristic(ContactSensorState'[d])]
    /\ cycles' = [cycles EXCEPT ![d] = RemoveAt(@, i)]
    /\ lastResp' = [lastResp EXCEPT ![d] = response]
    /\ olderCycles' = [olderCycles EXCEPT ![d] = Len(cycles'[d])]
    \* the cycles before this one are still in flight
    /\ overtaken' = [overtaken EXCEPT ![d] = IF i <= @ THEN @ - 1 ELSE i - 1]
    /\ since911' = [since911 EXCEPT ![d] = IF response[1] = "911" THEN 0 ELSE @]
    /\ UNCHANGED platformVars
    /\ UNCHANGED settingsVars
    /\ UNCHANGED <<platformRefreshRate, skipping, deviceRefreshRate, untilFire,
                   SensorUpdateInProgress>>

\* Seconds until the next emission of a subscribed interval.
NextDue ==
    CHOOSE m \in {untilFire[d] : d \in {e \in Devices : subscribed[e]}} :
        \A d \in Devices : subscribed[d] => m <= untilFire[d]

\* Time passes: a Quantum, or less when an interval emits before.
Advance ==
    /\ \E d \in Devices : subscribed[d]
    /\ \A d \in Devices : subscribed[d] => untilFire[d] > 0
    /\ untilFire' =
         [d \in Devices |->
            IF subscribed[d] THEN untilFire[d] - Min(Quantum, NextDue)
            ELSE untilFire[d]]
    /\ since911' =
         [d \in Devices |->
            IF since911[d] = Undefined THEN since911[d]
            ELSE Min(ThirtyMinutes, since911[d] + Min(Quantum, NextDue))]
    /\ UNCHANGED platformVars
    /\ UNCHANGED settingsVars
    /\ UNCHANGED <<platformRefreshRate, subscribed, skipping, deviceRefreshRate,
                   SensorUpdateInProgress, ContactSensorState, characteristic,
                   context, cycles, lastResp, olderCycles, wrote,
                   overtaken>>

\* A faulty createContactSensor that never finds the accessory in
\* this.accessories.
createContactSensorNeverFindsExisting(device, accs) ==
    IF device.hostname = Absent THEN "rejected"
    ELSE IF ~device.delete THEN "adding" ELSE "unable"

\* A faulty createContactSensor that restores every accessory it finds in the
\* cache, whatever device.delete says.
createContactSensorRestoresDeleted(device, accs) ==
    IF device.hostname = Absent THEN "rejected"
    ELSE IF device.hostname \in Range(accs) THEN "restoring"
    ELSE IF ~device.delete THEN "adding" ELSE "unable"

\* A faulty createContactSensor that looks at device.delete only when the
\* accessory is in the cache.
createContactSensorIgnoresDelete(device, accs) ==
    IF device.hostname = Absent THEN "rejected"
    ELSE IF device.hostname \in Range(accs)
         THEN IF ~device.delete THEN "restoring" ELSE "unregistered"
         ELSE "adding"

\* createContactSensor up to its first wait for the network: the branch it
\* takes. Without a hostname, uuid.generate(device.hostname) or
\* device.hostname.split('.') throws and the promise of the call rejects.
createContactSensorBranch(device, accs) ==
    IF device.hostname = Absent THEN "rejected"
    ELSE IF device.hostname \in Range(accs)
         THEN IF ~device.delete THEN "restoring" ELSE "unregistered"
         ELSE IF ~device.delete THEN "adding" ELSE "unable"

\* The async block of the constructor: await this.verifyConfig(). It runs in
\* microtasks, before the host restores an accessory or finishes launching.
VerifyConfig ==
    /\ phase = "constructed"
    /\ log' = verifyConfig(config, platformLogging, log)
    /\ phase' = "verified"
    /\ UNCHANGED handlerVars
    /\ UNCHANGED settingsVars
    /\ UNCHANGED <<config, platformLogging, hostCache, accessories, registerCalls,
                   unregisterCalls, discoverIndex, creating, rejections>>

\* configureAccessory(accessory): the host restores one cached accessory.
ConfigureAccessory ==
    /\ phase \in {"verified", "inert"}
    /\ hostCache # <<>>
    /\ log' = infoLog(log, platformLogging, "Loading accessory from cache",
                      Head(hostCache))
    /\ accessories' = Append(accessories, Head(hostCache))
    /\ hostCache' = Tail(hostCache)
    /\ UNCHANGED handlerVars
    /\ UNCHANGED settingsVars
    /\ UNCHANGED <<config, platformLogging, registerCalls, unregisterCalls, phase,
                   discoverIndex, creating, rejections>>

\* DidFinishLaunching with a listener that is installed whatever the
\* constructor was given: discoverDevices runs, and its loop over the devices
\* of an undefined config throws into the catch block.
DidFinishLaunchingAlwaysListening ==
    /\ phase \in {"verified", "inert"}
    /\ hostCache = <<>>
    /\ phase' = IF config.hasDevices /\ config.devices # <<>>
                THEN "discovering" ELSE "discovered"
    /\ discoverIndex' = 1
    /\ log' = IF config.hasDevices
              THEN log \cup {<<"debug", "Executed didFinishLaunching callback", Absent>>}
              ELSE errorLog(log \cup {<<"debug", "Executed didFinishLaunching callback",
                                       Absent>>},
                            platformLogging, "discoverDevices, No Device Config", Absent)
    /\ UNCHANGED handlerVars
    /\ UNCHANGED settingsVars
    /\ UNCHANGED <<config, platformLogging, hostCache, accessories, registerCalls,
                   unregisterCalls, creating, rejections>>

\* The host emits didFinishLaunching once the cached accessories are restored.
\* The listener calls discoverDevices, which enters its loop; for...of over
\* devices that are undefined throws into the catch block. A platform
\* constructed without a config has installed no listener: nothing runs.
DidFinishLaunching ==
    /\ phase \in {"verified", "inert"}
    /\ hostCache = <<>>
    /\ IF phase = "inert"
       THEN /\ phase' = "launched"
            /\ UNCHANGED <<discoverIndex, log>>
       ELSE /\ phase' = IF config.hasDevices /\ config.devices # <<>>
                        THEN "discovering" ELSE "discovered"
            /\ discoverIndex' = 1
            /\ log' = IF config.hasDevices
                      THEN log \cup {<<"debug", "Executed didFinishLaunching callback",
                                       Absent>>}
                      ELSE errorLog(log \cup {<<"debug",
                                               "Executed didFinishLaunching callback",
                                               Absent>>},
                                    platformLogging, "discoverDevices, No Device Config",
                                    Absent)
    /\ UNCHANGED handlerVars
    /\ UNCHANGED settingsVars
    /\ UNCHANGED <<config, platformLogging, hostCache, accessories, registerCalls,
                   unregisterCalls, creating, rejections>>

\* One pass of the loop of discoverDevices: infoLog(`Discovered ...`), then
\* createContactSensor(device), not awaited, up to its first wait for the
\* network (or to its end, in the branches that do not resolve the address).
DiscoverDevice ==
    /\ phase = "discovering"
    /\ LET k == discoverIndex
           device == config.devices[k]
           branch == createContactSensorBranch(device, accessories)
           l1 == infoLog(log, platformLogging, "Discovered", device.hostname)
       IN  /\ creating' = [creating EXCEPT ![k] = branch]
           /\ rejections' = IF branch = "rejected" THEN rejections \cup {k}
                            ELSE rejections
           \* unregisterPlatformAccessories(existingAccessory)
           /\ unregisterCalls' =
                IF branch = "unregistered"
                THEN [unregisterCalls EXCEPT ![device.hostname] = @ + 1]
                ELSE unregisterCalls
           /\ log' =
                CASE branch = "unregistered" ->
                       warnLog(l1, platformLogging,
                               "Removing existing accessory from cache", device.hostname)
                  [] branch = "unable" ->
                       debugErrorLog(l1, platformLogging,
                                     "Unable to Register new device", device.hostname)
                  [] OTHER -> l1
           /\ discoverIndex' = k + 1
           /\ phase' = IF k = Len(config.devices) THEN "discovered" ELSE "discovering"
    /\ UNCHANGED handlerVars
    /\ UNCHANGED settingsVars
    /\ UNCHANGED <<config, platformLogging, hostCache, accessories, registerCalls>>

\* The ContactSensor that the createContactSensor call for entry k of
\* config.devices constructs: each call constructs its own.  For entries
\* with different hostnames it goes by the hostname of its entry.
HandlerOf(k) == <<"d1", "d2">>[k]

\* CreateResolved with the new accessory registered but not kept in
\* this.accessories.
CreateResolvedWithoutPush(k, ip) ==
    /\ phase = "discovered"
    /\ k \in DOMAIN creating
    /\ creating[k] \in {"restoring", "adding"}
    /\ LET device == config.devices[k]
           l1 == IF ip = "failed"
                 THEN errorLog(log, platformLogging, "Not Able To Retreive IP Address",
                               device.hostname)
                 ELSE log
       IN  /\ Construct(HandlerOf(k), device.refreshRate)
           /\ IF creating[k] = "restoring"
              THEN /\ log' = infoLog(l1, platformLogging,
                                     "Restoring existing accessory from cache",
                                     device.hostname)
                   /\ creating' = [creating EXCEPT ![k] = "restored"]
                   /\ UNCHANGED <<registerCalls, accessories>>
              ELSE /\ log' = infoLog(l1, platformLogging, "Adding new accessory",
                                     device.hostname)
                   /\ registerCalls' =
                        [registerCalls EXCEPT ![device.hostname] = @ + 1]
                   /\ accessories' = accessories
                   /\ creating' = [creating EXCEPT ![k] = "added"]
    /\ UNCHANGED <<config, platformLogging, hostCache, unregisterCalls, phase,
                   discoverIndex, rejections>>
    /\ UNCHANGED settingsVars

\* publicIPv4 / publicIPv6 returns to createContactSensor, which runs to its
\* end: the accessory handler is constructed and, for a new accessory, the
\* accessory is registered with the host and pushed to this.accessories.
CreateResolved(k, ip) ==
    /\ phase = "discovered"
    /\ k \in DOMAIN creating
    /\ creating[k] \in {"restoring", "adding"}
    /\ LET device == config.devices[k]
           l1 == IF ip = "failed"
                 THEN errorLog(log, platformLogging, "Not Able To Retreive IP Address",
                               device.hostname)
                 ELSE log
       IN  /\ Construct(HandlerOf(k), device.refreshRate)
           /\ IF creating[k] = "restoring"
              THEN /\ log' = infoLog(l1, platformLogging,
                                     "Restoring existing accessory from cache",
                                     device.hostname)
                   /\ creating' = [creating EXCEPT ![k] = "restored"]
                   /\ UNCHANGED <<registerCalls, accessories>>
              ELSE /\ log' = infoLog(l1, platformLogging, "Adding new accessory",
                                     device.hostname)
                   /\ registerCalls' =
                        [registerCalls EXCEPT ![device.hostname] = @ + 1]
                   /\ accessories' = Append(accessories, device.hostname)
                   /\ creating' = [creating EXCEPT ![k] = "added"]
    /\ UNCHANGED <<config, platformLogging, hostCache, unregisterCalls, phase,
                   discoverIndex, rejections>>
    /\ UNCHANGED settingsVars

\* The hostnames of the entries of config.devices.
ConfiguredHostnames ==
    {config.devices[k].hostname : k \in DOMAIN config.devices} \ {Absent}

Next ==
    \/ \E d \in ConfiguredHostnames, r \in RefreshRateInputs :
         Construct(d, r) /\ UNCHANGED <<platformVars, settingsVars>>
    \/ \E d \in Devices : TimerFire(d)
    \/ \E d \in Devices, i \in 1..MaxInFlight, ip \in {"addr", "undefined"} :
         ResolverDone(d, i, ip)
    \/ \E d \in Devices, i \in 1..MaxInFlight : UpdateFailed(d, i)
    \/ \E d \in Devices, i \in 1..MaxInFlight, response \in Responses :
         UpdateResponded(d, i, response)
    \/ Advance

Spec == Init /\ [][Next]_vars

\* The responses of the No-IP protocol to an update of one hostname, and one
\* word outside its vocabulary.
ProtocolResponses ==
    {<<"good", "addr">>, <<"nochg", "addr">>}
        \cup {<<c>> : c \in (LeadWords \ {"good", "nochg"})}

\* Next with the responses of the protocol.
NextProtocol ==
    \/ \E d \in ConfiguredHostnames, r \in RefreshRateInputs :
         Construct(d, r) /\ UNCHANGED <<platformVars, settingsVars>>
    \/ \E d \in Devices : TimerFire(d)
    \/ \E d \in Devices, i \in 1..MaxInFlight, ip \in {"addr", "undefined"} :
         ResolverDone(d, i, ip)
    \/ \E d \in Devices, i \in 1..MaxInFlight : UpdateFailed(d, i)
    \/ \E d \in Devices, i \in 1..MaxInFlight, response \in ProtocolResponses :
         UpdateResponded(d, i, response)
    \/ Advance

\* The fairness the runtime gives: time passes, a due interval emits, and every
\* request ends (undici bounds the wait for headers and body).
Fairness ==
    /\ WF_vars(Advance)
    /\ \A d \in Devices :
         /\ WF_vars(TimerFire(d))
         /\ WF_vars(\E i \in 1..MaxInFlight, ip \in {"addr", "undefined"} :
                      ResolverDone(d, i, ip))
         /\ WF_vars(\E i \in 1..MaxInFlight :
                      \/ UpdateFailed(d, i)
                      \/ \E response \in ProtocolResponses :
                           UpdateResponded(d, i, response))

LiveSpec == Init /\ [][NextProtocol]_vars /\ Fairness

\* The platform after its constructor, for every config (or none), logging
\* setting and host cache enumerated.
PlatformInit ==
    /\ platformRefreshRate = Undefined
    /\ NoHandlers
    /\ \/ \E raw \in RawConfigs, optionsLogging \in OptionsLoggingInputs,
             debugMode \in BOOLEAN, cache \in CacheInputs :
            PlatformConstructed(
                raw, getPlatformLogSettings(optionsLogging, debugMode), cache)
       \/ \E cache \in CacheInputs : PlatformNotConfigured(cache)
    /\ settings = NoSettings
    /\ requests = <<>>
    /\ NothingResolved

\* The start of the platform, up to the construction of the accessory handlers.
PlatformNext ==
    \/ VerifyConfig
    \/ ConfigureAccessory
    \/ DidFinishLaunching
    \/ DiscoverDevice
    \/ \E k \in DOMAIN creating, ip \in ResolverOutcomes : CreateResolved(k, ip)

PlatformSpec == PlatformInit /\ [][PlatformNext]_vars

\* config.devices with two entries, the second for the hostname of the
\* first or for another one.
SharedHostnameLists ==
    {<<a, b>> : a \in {DeviceEntry("d1", "test@example.com", "password", del) :
                          del \in BOOLEAN},
                b \in {DeviceEntry(h, "test@example.com", "password", del) :
                          h \in Devices, del \in BOOLEAN}}

\* The platform after its constructor, with two entries in config.devices
\* that may share a hostname.
SharedHostnameInit ==
    /\ platformRefreshRate = Undefined
    /\ NoHandlers
    /\ \E devices \in SharedHostnameLists, optionsLogging \in OptionsLoggingInputs,
          cache \in CacheInputs :
         PlatformConstructed(
             [hasDevices |-> TRUE, devices |-> devices, legacy |-> FALSE],
             getPlatformLogSettings(optionsLogging, FALSE), cache)
    /\ settings = NoSettings
    /\ requests = <<>>
    /\ NothingResolved

SharedHostnameSpec == SharedHostnameInit /\ [][PlatformNext]_vars

\* A platform with one device, for every setting of rates, provider and
\* address family enumerated.
SettingsInit ==
    /\ platformRefreshRate = Undefined
    /\ NoHandlers
    /\ PlatformConstructed(
          [hasDevices |-> TRUE,
           devices |-> <<DeviceEntry("d1", "test@example.com", "password", FALSE)>>,
           legacy |-> FALSE],
          "standard", <<>>)
    /\ settings \in SettingsInputs
    /\ requests = <<>>
    /\ NothingResolved

\* this.getPlatformRateSettings(), in the constructor of the platform.
GetPlatformRateSettings ==
    /\ phase = "constructed"
    /\ platformRefreshRate' = getPlatformRateSettings(settings.optionsRefreshRate)
    /\ phase' = "platformRate"
    /\ UNCHANGED <<subscribed, skipping, deviceRefreshRate, untilFire,
                   SensorUpdateInProgress, ContactSensorState, characteristic,
                   context, cycles, lastResp, olderCycles, since911, wrote,
                   overtaken>>
    /\ UNCHANGED <<config, platformLogging, hostCache, accessories, registerCalls,
                   unregisterCalls, log, discoverIndex, creating, rejections>>
    /\ UNCHANGED settingsVars

\* this.getDeviceRateSettings(device), in the constructor of deviceBase.
GetDeviceRateSettings ==
    /\ phase = "platformRate"
    /\ deviceRefreshRate' =
         [deviceRefreshRate EXCEPT
            !["d1"] = getDeviceRateSettings(settings.refreshRate, platformRefreshRate)]
    /\ phase' = "deviceRate"
    /\ UNCHANGED <<platformRefreshRate, subscribed, skipping, untilFire,
                   SensorUpdateInProgress, ContactSensorState, characteristic,
                   context, cycles, lastResp, olderCycles, since911, wrote,
                   overtaken>>
    /\ UNCHANGED <<config, platformLogging, hostCache, accessories, registerCalls,
                   unregisterCalls, log, discoverIndex, creating, rejections>>
    /\ UNCHANGED settingsVars

\* One call that resolves the public address of the device: publicIPv4 or
\* publicIPv6 issues request(url, { method: 'GET' }).
ResolveAddress ==
    /\ phase = "deviceRate"
    /\ requests' = Append(requests, publicIP(settings))
    /\ phase' = "resolving"
    /\ UNCHANGED handlerVars
    /\ UNCHANGED <<config, platformLogging, hostCache, accessories, registerCalls,
                   unregisterCalls, log, discoverIndex, creating, rejections>>
    /\ UNCHANGED <<settings, lookup, resolved, naming, displayName, deviceVars>>

\* The response to the request of publicIPv4 / publicIPv6 arrives: pubIp.ip
\* of the parsed body is returned, whatever the status code; a body that is
\* not JSON throws into the catch block, which logs and returns undefined.
LookupResponded(statusCode, body) ==
    /\ phase = "resolving"
    /\ lookup' = [statusCode |-> statusCode, body |-> body]
    /\ resolved' = bodyJson(body).ip
    /\ log' = IF bodyJson(body).parsed THEN log
              ELSE errorLog(log, platformLogging, "Not Able To Retreive IP Address",
                            "d1")
    /\ phase' = "resolved"
    /\ UNCHANGED handlerVars
    /\ UNCHANGED <<config, platformLogging, hostCache, accessories, registerCalls,
                   unregisterCalls, discoverIndex, creating, rejections>>
    /\ UNCHANGED <<settings, requests, naming, displayName, deviceVars>>

\* The request of publicIPv4 / publicIPv6 rejects (no connection): the catch
\* block logs and returns undefined.
LookupFailed ==
    /\ phase = "resolving"
    /\ resolved' = "undefined"
    /\ log' = errorLog(log, platformLogging, "Not Able To Retreive IP Address", "d1")
    /\ phase' = "resolved"
    /\ UNCHANGED handlerVars
    /\ UNCHANGED <<config, platformLogging, hostCache, accessories, registerCalls,
                   unregisterCalls, discoverIndex, creating, rejections>>
    /\ UNCHANGED <<settings, requests, lookup, naming, displayName, deviceVars>>

\* A platform whose createContactSensor is given one device, for every naming
\* enumerated.
NameInit ==
    /\ platformRefreshRate = Undefined
    /\ NoHandlers
    /\ PlatformConstructed(
          [hasDevices |-> TRUE,
           devices |-> <<DeviceEntry("d1", "test@example.com", "password", FALSE)>>,
           legacy |-> FALSE],
          "standard", <<>>)
    /\ settings = NoSettings
    /\ requests = <<>>
    /\ platformDebugMode = FALSE
    /\ deviceLogging = Unset
    /\ deviceFirmwareVersion = NotNamed
    /\ userAgent = NotNamed
    /\ lookup = NoLookup
    /\ resolved = Unset
    /\ naming \in NamingInputs
    /\ displayName = NotNamed

\* createContactSensor assigns accessory.displayName: the cleaned
\* userDefinedDeviceName when a configDeviceName is configured, the cleaned
\* first label of the hostname otherwise.
AssignDisplayName ==
    /\ phase = "constructed"
    /\ displayName' =
         IF naming.configDeviceName \notin {UndefinedName, <<>>}
         THEN validateAndCleanDisplayName(naming.allowInvalidCharacters,
                                          naming.userDefinedDeviceName)
         ELSE validateAndCleanDisplayName(naming.allowInvalidCharacters,
                                          naming.hostname)
    /\ phase' = "cleaned"
    /\ UNCHANGED handlerVars
    /\ UNCHANGED <<config, platformLogging, hostCache, accessories, registerCalls,
                   unregisterCalls, log, discoverIndex, creating, rejections>>
    /\ UNCHANGED <<settings, requests, lookup, resolved, naming, deviceVars>>

\* if (!accessory.displayName) accessory.displayName = 'Unnamed Accessory'
EnsureDisplayName ==
    /\ phase = "cleaned"
    /\ displayName' = IF displayName \in {UndefinedName, <<>>}
                      THEN <<"Unnamed Accessory">>
                      ELSE displayName
    /\ phase' = "named"
    /\ UNCHANGED handlerVars
    /\ UNCHANGED <<config, platformLogging, hostCache, accessories, registerCalls,
                   unregisterCalls, log, discoverIndex, creating, rejections>>
    /\ UNCHANGED <<settings, requests, lookup, resolved, naming, deviceVars>>

NameNext ==
    \/ AssignDisplayName
    \/ EnsureDisplayName

NameSpec == NameInit /\ [][NameNext]_vars

SettingsNext ==
    \/ GetPlatformRateSettings
    \/ GetDeviceRateSettings
    \/ ResolveAddress
    \/ \E statusCode \in LookupStatusCodes, body \in LookupBodies :
         LookupResponded(statusCode, body)
    \/ LookupFailed

SettingsSpec == SettingsInit /\ [][SettingsNext]_vars

\* One device of a platform, from the construction of the platform to the
\* first update call of the device: the logging level and the version.
DeviceInit ==
    /\ platformRefreshRate = Undefined
    /\ NoHandlers
    /\ PlatformConstructed(
          [hasDevices |-> TRUE,
           devices |-> <<DeviceEntry("d1", "test@example.com", "password", FALSE)>>,
           legacy |-> FALSE],
          Absent, <<>>)
    /\ settings \in DeviceSettingsInputs
    /\ requests = <<>>
    /\ NothingResolved

\* What the steps of the device specification leave alone.
DeviceFrame ==
    /\ UNCHANGED handlerVars
    /\ UNCHANGED <<config, hostCache, accessories, registerCalls,
                   unregisterCalls, log, discoverIndex, creating, rejections>>
    /\ UNCHANGED <<settings, requests, lookup, resolved, naming, displayName>>

\* this.getPlatformLogSettings(), in the constructor of the platform.
GetPlatformLogSettings ==
    /\ phase = "constructed"
    /\ platformDebugMode' = argvDebugMode(settings.argv)
    /\ platformLogging' =
          getPlatformLogSettings(settings.optionsLogging,
                                 argvDebugMode(settings.argv))
    /\ phase' = "platformLog"
    /\ UNCHANGED <<deviceLogging, deviceFirmwareVersion, userAgent>>
    /\ DeviceFrame

\* this.getDeviceLogSettings(device), in the constructor of deviceBase.
GetDeviceLogSettings ==
    /\ phase = "platformLog"
    /\ deviceLogging' =
          getDeviceLogSettings(platformDebugMode, settings.logging, platformLogging)
    /\ phase' = "deviceLog"
    /\ UNCHANGED <<platformLogging, platformDebugMode, deviceFirmwareVersion,
                   userAgent>>
    /\ DeviceFrame

\* this.getDeviceContext(accessory, device), in the constructor of deviceBase.
GetDeviceContext ==
    /\ phase = "deviceLog"
    /\ deviceFirmwareVersion' = getDeviceContext(settings.firmware, settings.version)
    /\ phase' = "context"
    /\ UNCHANGED <<platformLogging, platformDebugMode, deviceLogging, userAgent>>
    /\ DeviceFrame

\* The request of refreshStatus to No-IP: its User-Agent.
RequestUpdate ==
    /\ phase = "context"
    /\ userAgent' = UserAgentVersion(settings.firmware)
    /\ phase' = "requested"
    /\ UNCHANGED <<platformLogging, platformDebugMode, deviceLogging,
                   deviceFirmwareVersion>>
    /\ DeviceFrame

DeviceNext ==
    \/ GetPlatformLogSettings
    \/ GetDeviceLogSettings
    \/ GetDeviceContext
    \/ RequestUpdate

DeviceSpec == DeviceInit /\ [][DeviceNext]_vars

\* device.refreshRate of the devices of a platform with two devices.
TwoDeviceRates == {900}

\* The responses two devices are answered with: no change, and a terminal
\* code, which ends the device's polling.
TwoDeviceResponses == {<<"nochg", "addr">>, <<"badauth">>}

\* A platform with two valid devices.
TwoDeviceInit ==
    /\ platformRefreshRate = Undefined
    /\ NoHandlers
    /\ PlatformConstructed(
          [hasDevices |-> TRUE,
           devices |-> <<DeviceEntry("d1", "test@example.com", "password", FALSE),
                         DeviceEntry("d2", "test@example.com", "password", FALSE)>>,
           legacy |-> FALSE],
          "standard", <<>>)
    /\ settings = NoSettings
    /\ requests = <<>>
    /\ NothingResolved

\* The refresh loops of the two devices, interleaved.
TwoDeviceNext ==
    \/ \E d \in ConfiguredHostnames, r \in TwoDeviceRates :
         Construct(d, r) /\ UNCHANGED <<platformVars, settingsVars>>
    \/ \E d \in Devices : TimerFire(d)
    \/ \E d \in Devices, i \in 1..MaxInFlight : ResolverDone(d, i, "addr")
    \/ \E d \in Devices, i \in 1..MaxInFlight : UpdateFailed(d, i)
    \/ \E d \in Devices, i \in 1..MaxInFlight, response \in TwoDeviceResponses :
         UpdateResponded(d, i, response)
    \/ Advance

TwoDeviceSpec == TwoDeviceInit /\ [][TwoDeviceNext]_vars

\* ------------------------------------------------------------------ claims

\* The first word of the outcome of the most recently ended cycle.
LastLead(d) == IF lastResp[d] = <<>> THEN "none" ELSE lastResp[d][1]

\* Cycle i of d began after the most recently ended cycle ended.
BeganAfterLast(d, i) == i > olderCycles[d] /\ i <= Len(cycles[d])

\* C1: for each device at most one refresh cycle is in flight at any time (a
\* tick that fires while a cycle is in flight starts none).
C1_AtMostOneCycleInFlight == \A d \in Devices : Len(cycles[d]) <= 1

\* C2: once the most recent response of a device carries nohost, badauth,
\* badagent, !donator or abuse, no cycle begun by a later tick of that device
\* issues the No-IP update call.
C2_NoUpdateCallAfterTerminal ==
    [][\A d \in Devices, i \in 1..MaxInFlight, ip \in {"addr", "undefined"} :
         (LastLead(d) \in TerminalCodes /\ BeganAfterLast(d, i))
            => ~ResolverDone(d, i, ip)]_vars

\* C3: a cycle begun after a 911 response of its device issues no No-IP update
\* call earlier than 30 minutes after that response.
C3_NoUpdateCallWithin30MinOf911 ==
    [][\A d \in Devices, i \in 1..MaxInFlight, ip \in {"addr", "undefined"} :
         (since911[d] # Undefined /\ since911[d] < ThirtyMinutes
            /\ BeganAfterLast(d, i))
            => ~ResolverDone(d, i, ip)]_vars

\* C4: after a cycle whose response text starts with `good <ip>' the sensor
\* state of the device is CLOSED (CONTACT_DETECTED).
C4_GoodCloses ==
    \A d \in Devices :
        (Len(lastResp[d]) >= 2 /\ lastResp[d][1] = "good" /\ lastResp[d][2] = "addr")
            => ContactSensorState[d] = CONTACT_DETECTED

\* A tick of d that starts a cycle.
TickStartsCycle(d) == TimerFire(d) /\ Len(cycles'[d]) = Len(cycles[d]) + 1

\* C5: after a cycle whose response text starts with `nochg' the sensor state
\* is CLOSED, the interval stays subscribed (no cool-down), and a tick that
\* comes due starts a cycle.
C5_NochgClosesAndLoopGoesOn ==
    \A d \in Devices :
        LastLead(d) = "nochg"
            => /\ ContactSensorState[d] = CONTACT_DETECTED
               /\ characteristic[d] = CONTACT_DETECTED
               /\ subscribed[d]
               /\ (untilFire[d] = 0 /\ Len(cycles[d]) < MaxInFlight)
                     => ENABLED TickStartsCycle(d)

\* C5 witness: after a nochg response a later tick has started a cycle that
\* has reached its update call.
C5_Witness ==
    \E d \in Devices :
        /\ lastResp[d] = <<"nochg", "addr">>
        /\ ContactSensorState[d] = CONTACT_DETECTED
        /\ \E i \in 1..Len(cycles[d]) :
             BeganAfterLast(d, i) /\ cycles[d][i].stage = "update"

\* The outcome is a failure or a one-line response, `<status>' or
\* `<status> <ip>'.
OneLine(resp) == Len(resp) <= 1 \/ resp[2] = "addr"

\* C6: the sensor state is CLOSED only if the most recently ended cycle
\* received a response with status good or nochg; a last cycle that ended in a
\* failure or a terminal condition leaves it OPEN. (Stated for the one-line
\* responses No-IP gives for one hostname.)
C6_ClosedOnlyAfterSuccess ==
    \A d \in Devices :
        OneLine(lastResp[d])
            => /\ ContactSensorState[d] = CONTACT_DETECTED
                    => LastLead(d) \in {"good", "nochg"}
               /\ (lastResp[d] = TransportFailure
                     \/ LastLead(d) \in TerminalCodes \cup {"911"})
                    => ContactSensorState[d] = CONTACT_NOT_DETECTED

\* C7: the step in which the IP lookup or the No-IP update call of a cycle
\* fails sets the sensor state OPEN (CONTACT_NOT_DETECTED).
C7_TransportFailureOpens ==
    [][\A d \in Devices, i \in 1..MaxInFlight :
         (ResolverDone(d, i, "undefined") \/ UpdateFailed(d, i))
            => ContactSensorState'[d] = CONTACT_NOT_DETECTED]_vars

\* C8: a cycle whose resolver yielded no IP makes no call to the No-IP update
\* endpoint.
C8_NoUpdateCallWithoutIP ==
    \A d \in Devices, i \in 1..MaxInFlight :
        i <= Len(cycles[d])
            => ~(cycles[d][i].stage = "update" /\ cycles[d][i].ip = "undefined")

\* C9: the step that ends a cycle that failed at the resolver or at the update
\* call leaves the stored sensor state as it was.
C9_FailedCycleKeepsState ==
    [][\A d \in Devices, i \in 1..MaxInFlight :
         (/\ i <= Len(cycles[d])
          /\ cycles'[d] = RemoveAt(cycles[d], i)
          /\ \/ cycles[d][i].ip = "undefined"
             \/ lastResp'[d] = TransportFailure)
            => ContactSensorState'[d] = ContactSensorState[d]]_vars

\* C10: for every device whose accessory handler exists, ticks start new
\* cycles infinitely often, whatever the outcomes of the cycles before.
C10_LoopNeverStops ==
    \A d \in Devices : <>subscribed[d] => []<><<TickStartsCycle(d)>>_vars

\* C10 witness: after a cycle that ended in a transport failure with nothing
\* else in flight, a later tick has started a cycle.
C10_Witness ==
    \E d \in Devices :
        /\ lastResp[d] = TransportFailure
        /\ olderCycles[d] = 0
        /\ cycles[d] = <<NewCycle>>

\* C11: the step that constructs the accessory handler of a device starts
\* exactly one refresh cycle, with the first tick of the timer still to come;
\* every later step that starts a cycle of the device is a tick of its timer
\* that came due, and starts one cycle.
C11_OneCycleAtConstructionThenTicks ==
    [][\A d \in Devices :
         /\ (~subscribed[d] /\ subscribed'[d])
               => /\ cycles[d] = <<>>
                  /\ cycles'[d] = <<NewCycle>>
                  /\ untilFire'[d] = deviceRefreshRate'[d]
                  /\ untilFire'[d] > 0
         /\ (subscribed[d] /\ Len(cycles'[d]) > Len(cycles[d]))
               => /\ untilFire[d] = 0
                  /\ TickStartsCycle(d)]_vars

\* C11 witness: the cycle of the constructor has ended with `good', and a tick
\* has started the next one.
C11_Witness ==
    \E d \in Devices :
        /\ subscribed[d]
        /\ lastResp[d] = <<"good", "addr">>
        /\ olderCycles[d] = 0
        /\ cycles[d] = <<NewCycle>>

C13_DeletedDeviceNeverRegistered ==
    \A k \in DOMAIN config.devices :
        (config.devices[k].delete /\ config.devices[k].hostname # Absent)
            => registerCalls[config.devices[k].hostname] = 0

\* C13 witness: discovery is over for two devices with delete: true, one with
\* an accessory in the host cache (unregistered), one without.
C13_Witness ==
    /\ phase = "discovered"
    /\ Len(config.devices) = 2
    /\ config.devices[1].delete
    /\ config.devices[2].delete
    /\ creating = <<"unregistered", "unable">>
    /\ registerCalls["d1"] = 0
    /\ registerCalls["d2"] = 0

\* Startup discovery is over: discoverDevices has passed every entry and no
\* createContactSensor call waits for the network.
DiscoveryOver ==
    /\ phase = "discovered"
    /\ \A k \in DOMAIN creating : creating[k] \notin {"none", "restoring", "adding"}

\* C14: when startup discovery is over, every accessory restored from the
\* host cache whose hostname is not in config.devices has been unregistered
\* exactly once.
C14_RemovedHostnameUnregisteredOnce ==
    DiscoveryOver
        => \A h \in Range(accessories) \ ConfiguredHostnames :
               unregisterCalls[h] = 1

\* An entry verifyConfig has to report: no hostname, no username, a username
\* that is no email address, or no password.
InvalidEntry(e) ==
    \/ e.hostname = Absent
    \/ e.username \in {Absent, "invalid-email"}
    \/ e.password = Absent

\* The error-level entries of verifyConfig about the entries of config.devices.
VerifyConfigErrors(h) ==
    {entry \in log :
        /\ entry[1] = "error"
        /\ entry[2] \in {"Missing Domain", "Missing Your No-IP Username(E-mail)",
                          "Provide a valid Email", "Missing your No-IP Password"}
        /\ entry[3] = h}

\* The async block of the constructor runs verifyConfig to its end, whatever
\* the config.
InitializationCompletes ==
    /\ phase = "constructed" => ENABLED VerifyConfig
    /\ phase = "verified" => rejections = {}

\* C15 as stated: under every platform logging setting, once verifyConfig has
\* run, the log holds an error-level entry for every invalid device, and the
\* initialization of the platform completes.
C15_InvalidDeviceLoggedUnderEveryLogging ==
    /\ InitializationCompletes
    /\ phase # "constructed"
         => \A k \in DOMAIN config.devices :
                InvalidEntry(config.devices[k])
                    => VerifyConfigErrors(config.devices[k].hostname) # {}

\* C15 amended: under every platform logging setting but `none', once
\* verifyConfig has run, the log holds an error-level entry for every invalid
\* device; under every setting the initialization of the platform completes.
C15_InvalidDeviceLoggedUnlessLoggingNone ==
    /\ InitializationCompletes
    /\ (phase # "constructed" /\ platformLogging # "none")
         => \A k \in DOMAIN config.devices :
                InvalidEntry(config.devices[k])
                    => VerifyConfigErrors(config.devices[k].hostname) # {}

\* C15 witness: under debug logging, verifyConfig has reported the username
\* of the first device as no valid email address.
C15_Witness ==
    /\ phase = "verified"
    /\ platformLogging = "debug"
    /\ Len(config.devices) >= 1
    /\ config.devices[1].username = "invalid-email"
    /\ <<"error", "Provide a valid Email", "d1">> \in log

\* The error-level entries of the log.
ErrorEntries == {entry \in log : entry[1] = "error"}

\* Every entry of config.devices has a hostname, a username that is an email
\* address and a password.
EveryDeviceValid ==
    \A k \in DOMAIN config.devices : ~InvalidEntry(config.devices[k])

\* this.config carries no legacy top-level hostname, username or password.
NoLegacyConfig ==
    config.hostname = Absent /\ config.username = Absent /\ config.password = Absent

\* C16 as stated: when every configured device is valid and there is no legacy
\* top-level hostname / username / password, verifyConfig has logged nothing
\* at error level.
C16_ValidConfigNoErrorLog ==
    (phase = "verified" /\ EveryDeviceValid /\ NoLegacyConfig)
        => ErrorEntries = {}

\* C16 amended: when config.devices is given, every configured device is
\* valid and there is no legacy top-level hostname / username / password,
\* verifyConfig has logged nothing at error level.
C16_ValidDevicesGivenNoErrorLog ==
    (phase = "verified" /\ config.hasDevices /\ EveryDeviceValid /\ NoLegacyConfig)
        => ErrorEntries = {}

\* C16 witness: verifyConfig has run under standard logging over two valid
\* devices and the log holds no error.
C16_Witness ==
    /\ phase = "verified"
    /\ platformLogging = "standard"
    /\ config.hasDevices
    /\ Len(config.devices) = 2
    /\ EveryDeviceValid
    /\ NoLegacyConfig
    /\ ErrorEntries = {}

\* The URL documented for each provider and address family.
DocumentedURL ==
    [ipify |-> [ipv4 |-> "https://api.ipify.org?format=json",
                ipv6 |-> "https://api64.ipify.org?format=json"],
     getmyip |-> [ipv4 |-> "https://ipv4.getmyip.dev",
                  ipv6 |-> "https://ipv6.getmyip.dev"],
     ipapi |-> [ipv4 |-> "https://ipapi.co/json",
                ipv6 |-> "https://ip6api.co/json"],
     myip |-> [ipv4 |-> "https://api4.my-ip.io/v2/ip.json",
               ipv6 |-> "https://api6.my-ip.io/v2/ip.txt"],
     ipinfo |-> [ipv4 |-> "https://ipinfo.io/json",
                 ipv6 |-> "https://v6.ipinfo.io/json"]]

\* C17: one resolve call for a provider and an address family (ipv4, ipv6)
\* issues exactly one GET, to the URL documented for the pair; a provider name
\* that is none of the five, or none at all, selects the ipinfo URL of the
\* family.
C17_OneGetToDocumentedURL ==
    (phase = "resolving" /\ settings.ipv4or6 \in {"ipv4", "ipv6"})
        => /\ Len(requests) = 1
           /\ requests[1] =
                DocumentedURL[IF settings.ipProvider \in DOMAIN DocumentedURL
                              THEN settings.ipProvider
                              ELSE "ipinfo"][settings.ipv4or6]

\* C17 witness: a resolve call for an unrecognized provider and ipv6 has
\* requested the v6 URL of ipinfo, once.
C17_Witness ==
    /\ phase = "resolving"
    /\ settings.ipProvider = "other"
    /\ settings.ipv4or6 = "ipv6"
    /\ requests = <<"https://v6.ipinfo.io/json">>

\* What the model holds of device e: its sensor state as the handler, the
\* characteristic and the accessory context hold it, its cycles in flight with
\* the in-progress flag, and its interval subscription with the time left.
DeviceState(e) ==
    <<ContactSensorState[e], characteristic[e], context[e],
      cycles[e], SensorUpdateInProgress[e], olderCycles[e], lastResp[e],
      subscribed[e], skipping[e], deviceRefreshRate[e], untilFire[e],
      since911[e], wrote[e], overtaken[e]>>

\* A step of a refresh cycle of device d: the cycle starts, its address
\* resolves, or its update call fails or is answered.
CycleStep(d) == cycles'[d] # cycles[d]

\* C18: a step of a refresh cycle of one device, a failed update call and a
\* terminal response included, leaves the sensor state, the cycles in flight
\* and the timer of every other device as they were, in every interleaving
\* of the two devices' steps.
C18_CycleLeavesOtherDevicesAlone ==
    [][\A d \in Devices : \A e \in Devices \ {d} :
         CycleStep(d) => DeviceState(e)' = DeviceState(e)]_vars

\* C18 witness: d1 has been answered badauth while d2, confirmed by nochg, has a cycle
\* waiting for its update call and an interval that is still subscribed.
C18_Witness ==
    /\ lastResp["d1"] = <<"badauth">>
    /\ ContactSensorState["d1"] = CONTACT_NOT_DETECTED
    /\ lastResp["d2"] = <<"nochg", "addr">>
    /\ ContactSensorState["d2"] = CONTACT_DETECTED
    /\ subscribed["d2"]
    /\ \E i \in 1..Len(cycles["d2"]) : cycles["d2"][i].stage = "update"


\* How many accessories of this.accessories are for hostname h.
AccessoriesFor(accs, h) == Cardinality({i \in DOMAIN accs : accs[i] = h})

\* C19: createContactSensor for a device with a hostname, without an
\* accessory in this.accessories and without delete: true goes on to create
\* one; the step that ends the call registers the accessory with the host for
\* the first time and appends it to this.accessories, with its handler
\* constructed; no step after that registers it or adds it again.
C19_NewDeviceRegisteredOnceAndPushed ==
    [][\A k \in DOMAIN creating :
         LET device == config.devices[k]
             h == device.hostname
         IN  /\ (/\ DiscoverDevice
                 /\ discoverIndex = k
                 /\ h # Absent
                 /\ h \notin Range(accessories)
                 /\ ~device.delete)
                   => creating'[k] = "adding"
             /\ (creating[k] = "adding" /\ creating'[k] # "adding")
                   => /\ creating'[k] = "added"
                      /\ h \notin Range(accessories)
                      /\ registerCalls[h] = 0
                      /\ registerCalls'[h] = 1
                      /\ accessories' = Append(accessories, h)
                      /\ subscribed'[h]
             /\ creating[k] = "added"
                   => /\ registerCalls'[h] = 1
                      /\ AccessoriesFor(accessories', h) = 1]_vars

\* C19 witness: d1 had no cached accessory (the cache held gone only); its
\* accessory has been registered once and follows gone in this.accessories.
C19_Witness ==
    /\ phase = "discovered"
    /\ Len(config.devices) >= 1
    /\ config.devices[1].hostname = "d1"
    /\ creating[1] = "added"
    /\ registerCalls["d1"] = 1
    /\ accessories = <<"gone", "d1">>
    /\ subscribed["d1"]


\* C20: once discoverDevices has passed its loop, accessory creation has been
\* attempted for every entry of config.devices, the entries verifyConfig
\* reported included, and at no time is there a createContactSensor call
\* whose failure is left as an error nobody catches.
C20_EveryEntryAttemptedNoUncaughtError ==
    /\ phase = "discovered"
         => \A k \in DOMAIN config.devices : creating[k] # "none"
    /\ rejections = {}


\* C21: a platform constructed without a config stays inert: this.config
\* stays undefined, the didFinishLaunching event finds no listener, so that
\* discoverDevices never runs, and no accessory is registered or
\* unregistered, no handler is constructed and no refresh cycle starts.
C21_NoConfigStaysInert ==
    config.platform = Absent
        => /\ config = UndefinedConfig
           /\ phase \in {"inert", "launched"}
           /\ creating = <<>>
           /\ log = {}
           /\ \A h \in Hostnames : registerCalls[h] = 0 /\ unregisterCalls[h] = 0
           /\ \A d \in Devices : ~subscribed[d] /\ cycles[d] = <<>>

\* C21 witness: without a config, the host has restored the accessories of
\* d1 and d2 from its cache and has emitted didFinishLaunching.
C21_Witness ==
    /\ config = UndefinedConfig
    /\ phase = "launched"
    /\ accessories = <<"d1", "d2">>
    /\ registerCalls["d1"] = 0
    /\ ~subscribed["d1"]


\* The value consists only of letters, digits, spaces and apostrophes and
\* starts and ends with a letter or digit.
CleanName(value) ==
    /\ value # <<>>
    /\ value # UndefinedName
    /\ \A i \in 1..Len(value) : value[i] \in {"a", "1", " ", "'"}
    /\ value[1] \in {"a", "1"}
    /\ value[Len(value)] \in {"a", "1"}

\* C22: with allowInvalidCharacters off, validateAndCleanDisplayName returns
\* unchanged every value that consists only of letters, digits, spaces and
\* apostrophes and starts and ends with a letter or digit.
C22_CleanNameUnchanged ==
    (/\ phase = "cleaned"
     /\ ~naming.allowInvalidCharacters
     /\ naming.configDeviceName = UndefinedName
     /\ CleanName(naming.hostname))
        => displayName = naming.hostname

\* C22 witness: the value `a 1' has come back as it was.
C22_Witness ==
    /\ phase = "cleaned"
    /\ ~naming.allowInvalidCharacters
    /\ naming.configDeviceName = UndefinedName
    /\ naming.hostname = <<"a", " ", "1">>
    /\ displayName = <<"a", " ", "1">>


\* C23: a response whose leading token is neither good nor nochg never leaves
\* the sensor CLOSED (CONTACT_DETECTED), whatever follows the leading token.
C23_OnlyLeadingTokenClassifies ==
    \A d \in Devices :
        (/\ lastResp[d] \notin {<<>>, TransportFailure}
         /\ LastLead(d) \notin {"good", "nochg"})
            => ContactSensorState[d] # CONTACT_DETECTED


\* C24: the step in which a response with a status code outside the
\* vocabulary arrives leaves the sensor state of the device and its interval
\* subscription as they were, and logs the response at debug level, not at
\* error level.
C24_UnrecognizedCodeChangesNothing ==
    [][\A d \in Devices, i \in 1..MaxInFlight, response \in Responses :
         (UpdateResponded(d, i, response) /\ response[1] \notin StatusCodes)
            => /\ ContactSensorState'[d] = ContactSensorState[d]
               /\ subscribed'[d] = subscribed[d]
               /\ refreshStatusLogLevel(response) = "debug"]_vars


\* The step ends a cycle of d with a response of No-IP.
CycleResponded(d) ==
    /\ Len(cycles'[d]) < Len(cycles[d])
    /\ lastResp'[d] # TransportFailure

\* C25 as stated: the step that ends a cycle with a response deciding the
\* state the characteristic was last written with performs no characteristic
\* write.
C25_WritesOnlyOnChange ==
    [][\A d \in Devices :
         (CycleResponded(d) /\ parseStatus(lastResp'[d]) = characteristic[d])
            => ~wrote'[d]]_vars

\* C25 amended: the step that ends a cycle with a response writes the decided
\* sensor state to the characteristic and to the accessory context, also
\* when it is the value last written; the value written is the stored
\* sensor state.
C25_WritesEveryDecidedState ==
    [][\A d \in Devices :
         CycleResponded(d)
            => /\ wrote'[d]
               /\ characteristic'[d] = parseStatus(lastResp'[d])
               /\ characteristic'[d] = ContactSensorState'[d]
               /\ context'[d] = ContactSensorState'[d]]_vars

\* C25 witness: before any tick of the timer, the cycle of the constructor
\* has ended with badauth: OPEN has been written over the OPEN the
\* constructor wrote.
C25_Witness ==
    \E d \in Devices :
        /\ subscribed[d]
        /\ skipping[d]
        /\ lastResp[d] = <<"badauth">>
        /\ cycles[d] = <<>>
        /\ characteristic[d] = CONTACT_NOT_DETECTED
        /\ context[d] = CONTACT_NOT_DETECTED
        /\ wrote[d]


\* C26: for a configured device with delete: true whose accessory was in the
\* host cache, the accessory is unregistered exactly once (in the pass of
\* discoverDevices over its entry, never before, never again), no handler is
\* constructed for it, so that no timer is subscribed, no refresh cycle
\* starts and no tick can fire, and no characteristic of it is written.
C26_DeletedDeviceUnregisteredOnceNeverPolled ==
    \A k \in DOMAIN config.devices :
        LET device == config.devices[k]
            h == device.hostname
        IN  (device.delete /\ h # Absent /\ h \in Range(accessories))
               => /\ unregisterCalls[h] = IF creating[k] = "none" THEN 0 ELSE 1
                  /\ creating[k] \in {"none", "unregistered"}
                  /\ h \in Devices
                        => /\ ~subscribed[h]
                           /\ cycles[h] = <<>>
                           /\ ~ENABLED TimerFire(h)
                           /\ characteristic[h] = Unset
                           /\ context[h] = Unset
                           /\ ~wrote[h]

\* C26 witness: discovery is over; d1, deleted and cached, has been
\* unregistered once, while d2 has been restored and polls.
C26_Witness ==
    /\ DiscoveryOver
    /\ Len(config.devices) = 2
    /\ config.devices[1].hostname = "d1"
    /\ config.devices[1].delete
    /\ creating = <<"unregistered", "restored">>
    /\ unregisterCalls["d1"] = 1
    /\ ~subscribed["d1"]
    /\ subscribed["d2"]


\* C27: for a configured device without delete whose accessory was restored
\* from the host cache, createContactSensor takes the branch that updates
\* the existing accessory, and registerPlatformAccessories is never called
\* for its hostname; registerPlatformAccessories is called only when the
\* host has restored every cached accessory and emitted didFinishLaunching.
C27_RestoredNeverRegisteredAndRegisterAfterLaunch ==
    /\ \A k \in DOMAIN config.devices :
          LET device == config.devices[k]
              h == device.hostname
          IN  (/\ h # Absent
               /\ ~device.delete
               /\ h \in Range(accessories)
               /\ creating[k] \notin {"none", "added"})
                 => /\ creating[k] \in {"restoring", "restored"}
                    /\ registerCalls[h] = 0
                    /\ AccessoriesFor(accessories, h) = 1
    /\ \A h \in Hostnames :
          registerCalls[h] > 0 => (hostCache = <<>> /\ phase = "discovered")

\* C27 witness: d1 has been restored from the cache and never registered,
\* while d2, which was not in the cache, has been registered.
C27_Witness ==
    /\ phase = "discovered"
    /\ Len(config.devices) = 2
    /\ creating = <<"restored", "added">>
    /\ accessories = <<"d1", "d2">>
    /\ registerCalls["d1"] = 0
    /\ registerCalls["d2"] = 1
    /\ subscribed["d1"]


\* A name is supplied: it is neither undefined nor the empty string.
Supplied(name) == name \notin {UndefinedName, <<>>}

\* The name C28 makes the display name, before the placeholder.
C28_CleanedName ==
    IF Supplied(naming.configDeviceName)
    THEN validateAndCleanDisplayName(FALSE, naming.configDeviceName)
    ELSE validateAndCleanDisplayName(FALSE, naming.hostname)

\* C28: with allowInvalidCharacters off, the display name createContactSensor
\* leaves on the accessory is the cleaned configDeviceName when one is
\* supplied and the cleaned first label of the hostname otherwise, and
\* 'Unnamed Accessory' exactly when that cleaned name is empty.
C28_DisplayNameFromConfigDeviceName ==
    (phase = "named" /\ ~naming.allowInvalidCharacters)
        => displayName = IF C28_CleanedName = <<>>
                         THEN <<"Unnamed Accessory">>
                         ELSE C28_CleanedName


\* The error-level entries of the resolver in the log.
LookupErrors ==
    {entry \in log : entry[1] = "error" /\ entry[2] = "Not Able To Retreive IP Address"}

\* C29: an IP lookup answered with a status code outside 2xx, or with a body
\* without an ip field, yields no IP and is logged at error level.
C29_BadLookupIsLoggedFailure ==
    (/\ phase = "resolved"
     /\ lookup # NoLookup
     /\ (lookup.statusCode \notin 200..299 \/ bodyJson(lookup.body).ip = "undefined"))
        => /\ resolved = "undefined"
           /\ LookupErrors # {}

\* C30: for myip over IPv6, whose endpoint answers with the address as plain
\* text, the resolver returns the text of the body as the resolved IP and
\* logs no failure.
C30_PlainTextBodyIsTheAddress ==
    (/\ phase = "resolved"
     /\ settings.ipProvider = "myip"
     /\ settings.ipv4or6 = "ipv6"
     /\ lookup = [statusCode |-> 200, body |-> "text-ip"])
        => /\ resolved = "addr"
           /\ LookupErrors = {}

\* C31: the update call of a device carries a User-Agent whose version is
\* the firmware configured for the device, or the version of the plugin when
\* none is configured; it is never undefined and never empty.
C31_UserAgentVersionDefined ==
    phase = "requested"
        => /\ userAgent = (IF settings.firmware # NoVersion THEN settings.firmware
                           ELSE settings.version)
           /\ userAgent \notin {UndefinedName, <<>>}

\* C32: a device logs at debugMode when the platform is in debug mode, else
\* at the level selected for it, else at the level of the platform; the
\* selection Default Logging, the empty string, is no selection.
C32_DefaultLoggingIsThePlatformLevel ==
    phase \in {"deviceLog", "context", "requested"}
        => deviceLogging =
             (IF platformDebugMode THEN "debugMode"
              ELSE IF settings.logging \notin {Absent, ""} THEN settings.logging
              ELSE platformLogging)

\* C33: SensorUpdateInProgress of a device is true exactly while a refresh
\* cycle of the device is running.
C33_FlagTrueExactlyWhileCycleRuns ==
    \A d \in Devices :
        characteristic[d] # Unset
            => (SensorUpdateInProgress[d] <=> cycles[d] # <<>>)

\* The ContactSensor handlers constructed for hostname h, each with its
\* interval subscribed.
RefreshLoops(h) ==
    {k \in DOMAIN creating :
        /\ config.devices[k].hostname = h
        /\ creating[k] \in {"restored", "added"}
        /\ subscribed[HandlerOf(k)]}

\* C34: whatever the order in which the createContactSensor calls of a
\* discovery pass end, no accessory is registered with the host more than
\* once and no hostname has more than one refresh loop, also when two
\* entries of config.devices share a hostname.
C34_OneRegistrationOneLoopPerHostname ==
    \A h \in Hostnames :
        /\ registerCalls[h] <= 1
        /\ Cardinality(RefreshLoops(h)) <= 1

\* C35: a cycle that ends with a response after a cycle that began later has
\* ended with one leaves the sensor state as the later cycle decided it.
C35_OlderCycleNeverOverwrites ==
    [][\A d \in Devices :
         (CycleResponded(d) /\ overtaken'[d] < overtaken[d])
            => ContactSensorState'[d] = ContactSensorState[d]]_vars

\* C36: while the most recently ended cycle of a device is one that ended
\* with a response of No-IP, the characteristic of the host and
\* accessory.context hold the stored sensor state.
C36_HostAndContextHoldStoredState ==
    \A d \in Devices :
        (lastResp[d] # <<>> /\ lastResp[d] # TransportFailure)
            => /\ characteristic[d] = ContactSensorState[d]
               /\ context[d] = ContactSensorState[d]

\* A cycle of the device has ended with a response that begins with nochg,
\* and the host and the context show the sensor CLOSED.
C36_Witness ==
    \E d \in Devices :
        /\ LastLead(d) = "nochg"
        /\ ContactSensorState[d] = CONTACT_DETECTED
        /\ characteristic[d] = CONTACT_DETECTED
        /\ context[d] = CONTACT_DETECTED

\* C37: a device reports OPEN to the host from its construction until the
\* first of its cycles has ended, and its sensor state leaves OPEN only in a
\* step that ends a cycle with a response whose status is good or nochg.
C37_OpenUntilFirstSuccess ==
    [][\A d \in Devices :
         /\ (characteristic'[d] # Unset /\ lastResp'[d] = <<>>)
               => /\ characteristic'[d] = CONTACT_NOT_DETECTED
                  /\ ContactSensorState'[d] = CONTACT_NOT_DETECTED
         /\ (/\ ContactSensorState[d] = CONTACT_NOT_DETECTED
             /\ ContactSensorState'[d] # CONTACT_NOT_DETECTED)
               => /\ CycleResponded(d)
                  /\ lastResp'[d][1] \in {"good", "nochg"}]_vars

\* C38: the platform is in debug mode when Homebridge was started with -D or
\* with --debug, and its devices then log at debugMode.
C38_EitherFlagIsDebugMode ==
    /\ phase # "constructed"
          => platformDebugMode = (settings.argv \cap {"-D", "--debug"} # {})
    /\ (/\ phase \in {"deviceLog", "context", "requested"}
        /\ settings.argv \cap {"-D", "--debug"} # {})
          => deviceLogging = "debugMode"

\* C39: with allowInvalidCharacters off, the value validateAndCleanDisplayName
\* returns for a string consists of letters, digits, spaces and apostrophes,
\* is empty or starts and ends with a letter or a digit, and is returned
\* unchanged when it is cleaned again.
C39_CleanedNameIsCleanAndStable ==
    (/\ phase = "cleaned"
     /\ ~naming.allowInvalidCharacters
     /\ displayName # UndefinedName)
        => /\ \A i \in 1..Len(displayName) :
                 LetterOrNumber(displayName[i]) \/ displayName[i] \in {" ", "'"}
           /\ \/ displayName = <<>>
              \/ /\ LetterOrNumber(displayName[1])
                 /\ LetterOrNumber(displayName[Len(displayName)])
           /\ validateAndCleanDisplayName(FALSE, displayName) = displayName

\* The first label of the hostname is -a' and the cleaning has returned a:
\* the dash went as an invalid character, the apostrophe as an invalid end.
C39_Witness ==
    /\ phase = "cleaned"
    /\ ~naming.allowInvalidCharacters
    /\ naming.configDeviceName = UndefinedName
    /\ naming.hostname = <<"-", "a", "'">>
    /\ displayName = <<"a">>

====
